---- MODULE Spec2Model ----
(***************************************************************************)
(* A model of json_canvas_converter.py: the CanvasConverter class (asset   *)
(* resolution, bounding box, node rendering, document assembly, convert)   *)
(* and the viewer script it embeds: edge rendering, zoom and pan.          *)
(*                                                                         *)
(* Representation.                                                         *)
(*  - A path string is a sequence of tokens, "/" being the separator; a    *)
(*    parsed path (pathlib.Path) is a record [abs, parts].  The file       *)
(*    system is a fixed directory tree (Dirs) plus the variable set of     *)
(*    files that exist; relative directories are taken as already made     *)
(*    absolute against the working directory.                              *)
(*  - A JSON object (a node, an edge, the document) is a function from     *)
(*    key strings to values; an absent key is absent from its DOMAIN.      *)
(*  - A text is a sequence of tokens, "\n" being the line break.           *)
(*  - Python's None is the record None; a raised exception is a record    *)
(*    [exc |-> its class], and a method result carries the field exc, ""   *)
(*    when the method returned.                                            *)
(***************************************************************************)
EXTENDS Integers, Sequences, FiniteSets, TLC

VARIABLES
    rootDir,      \* self.root_dir: None or a parsed path
    canvasDir,    \* self.canvas_dir
    files,        \* file system: the paths (part sequences) of the files that exist
    unreadable,   \* file system: the existing files that cannot be opened for reading
    fileBytes,    \* file system: the bytes of every file
    scanOrder,    \* file system: the order in which a directory scan lists entry names
    fsVer,        \* history: how many times the file system has changed
    inputFile,    \* the file at self.canvas_path: [state, doc]
    outFault,     \* environment: how writing output_path fails, if it does
    canvas_data,  \* self.canvas_data
    nodes,        \* self.nodes
    edges,        \* self.edges
    outFile,      \* the file at output_path: [opened, content]
    stdout,       \* what the process printed to stdout
    stderr,       \* what the process printed to stderr
    ret,          \* history: the last method call, [op, arg, ver, value, err, exc]
    prev,         \* history: the method call before it
    nCalls,       \* history: method calls so far
    viewer        \* the browser page showing outFile: [loaded, svg, console, view]

vars == <<rootDir, canvasDir, files, unreadable, fileBytes, scanOrder, fsVer,
          inputFile, outFault, canvas_data, nodes, edges, outFile, stdout,
          stderr, ret, prev, nCalls, viewer>>

fsVars == <<files, unreadable, fileBytes, scanOrder, fsVer>>
docVars == <<inputFile, outFault, canvas_data, nodes, edges, outFile, stdout, viewer>>

\* The one element of a singleton: Only({e(v) : v \in {d}}) is e with v bound
\* to the value of d, which is computed once.
Only(S) == CHOOSE r \in S : TRUE

None == [none |-> TRUE]
ValueError == [exc |-> "ValueError"]

\* ------------------------------------------------------------------ bounds

\* Method calls per behaviour.
MaxCalls == 3
\* File system changes per behaviour.
MaxFsOps == 1

\* ------------------------------------------------------------ pathlib model

Last(s) == s[Len(s)]

\* pathlib.Path(str): a leading "/" makes the path absolute; separators,
\* empty components and "." components are dropped.
Path(str) ==
    [abs   |-> str # <<>> /\ str[1] = "/",
     parts |-> SelectSeq(str, LAMBDA t : t # "/" /\ t # "." /\ t # "")]

\* Path.__truediv__ with a string on the right: an absolute right operand
\* replaces the left one.
Join(dir, str) ==
    LET p == Path(str)
    IN  IF p.abs THEN p ELSE [abs |-> dir.abs, parts |-> dir.parts \o p.parts]

\* str(path): the parts joined by separators.
RECURSIVE JoinParts(_)
JoinParts(parts) ==
    IF parts = <<>> THEN <<>>
    ELSE IF Len(parts) = 1 THEN parts
    ELSE <<parts[1], "/">> \o JoinParts(Tail(parts))
Str(p) == (IF p.abs THEN <<"/">> ELSE <<>>) \o JoinParts(p.parts)

\* Path.name
Name(p) == IF p.parts = <<>> THEN "" ELSE Last(p.parts)

\* The directory tree (fixed): "/", /r, /r/img, /r/old, /c, /c/img, /c/old, /x.
Dirs ==
    {<<>>, <<"r">>, <<"r", "img">>, <<"r", "old">>,
     <<"c">>, <<"c", "img">>, <<"c", "old">>, <<"x">>}

\* File names with other extensions, with none, and a dot file.
MimeNames == {"p.PNG", "j.jpeg", "j.jpg", "v.svg", "n.bin", "README", ".gif"}

\* The file names of the model.
Names == {"a.gif", "a1.gif", "a[1].gif", "a**b.gif"}

\* The places a file may exist at.
AllFiles ==
    {Append(d, n) : d \in Dirs \ {<<>>}, n \in Names}
        \cup {<<"c", n>> : n \in MimeNames}

\* rglob takes its argument as a pattern.  The entry name a pattern of the
\* model matches: "[1]" is a character class, so "a[1].gif" matches "a1.gif"
\* and not itself; a pattern without wildcard matches itself.
GlobName(pattern) ==
    CASE pattern = "a[1].gif" -> "a1.gif"
      [] pattern = "v.s[v]g"  -> "v.svg"
      [] OTHER                -> pattern

\* rglob raises ValueError("Invalid pattern: '**' can only be an entire path
\* component") when it is called (pathlib of Python 3.8 to 3.12).
InvalidPattern(pattern) == pattern = "a**b.gif"

\* Path.exists(), for a path resolved against the file system.
Exists(p) == p.parts \in files \/ p.parts \in Dirs

\* The directories below d in the order a recursive scan visits them: d
\* first, then each sub-directory's walk, sub-directories taken in scanOrder.
RECURSIVE Walk(_), WalkChildren(_, _)
Walk(d) == <<d>> \o WalkChildren(d, 1)
WalkChildren(d, i) ==
    IF i > Len(scanOrder) THEN <<>>
    ELSE (IF Append(d, scanOrder[i]) \in Dirs
          THEN Walk(Append(d, scanOrder[i])) ELSE <<>>)
         \o WalkChildren(d, i + 1)

\* rglob listing a directory tree in an order that differs from one call to
\* the next.
Rglob_unstable(dir, pattern) ==
    LET name == GlobName(pattern)
        ds   == Walk(dir.parts)
        hits == SelectSeq(ds, LAMBDA d : Append(d, name) \in files \cup Dirs)
        n    == Len(hits)
    IN  [i \in 1..n |->
            [abs |-> dir.abs,
             parts |-> Append(hits[IF nCalls % 2 = 0 THEN i ELSE n + 1 - i], name)]]

\* list(dir.rglob(pattern)) for a valid pattern: the entries in dir or below
\* it whose name the pattern matches, in scan order.
Rglob(dir, pattern) ==
    LET name == GlobName(pattern)
        ds   == Walk(dir.parts)
        hits == SelectSeq(ds, LAMBDA d : Append(d, name) \in files \cup Dirs)
    IN  [i \in 1..Len(hits) |-> [abs |-> dir.abs, parts |-> Append(hits[i], name)]]

\* ----------------------------------------------------------- asset resolver

\* CanvasConverter.resolve_file_path: the path returned, None, or the
\* exception that a call of rglob raises.
resolve_file_path(file_path) ==
    LET original == Path(file_path)
        basename == Name(Path(file_path))
    IN  IF original.abs /\ Exists(original) THEN original
        ELSE IF rootDir # None /\ Exists(Join(rootDir, file_path))
        THEN Join(rootDir, file_path)
        ELSE IF Exists(Join(canvasDir, file_path)) THEN Join(canvasDir, file_path)
        ELSE IF rootDir # None /\ Exists(Join(rootDir, <<basename>>))
        THEN Join(rootDir, <<basename>>)
        ELSE IF rootDir # None /\ InvalidPattern(basename) THEN ValueError
        ELSE IF rootDir # None /\ Rglob(rootDir, basename) # <<>>
        THEN Rglob(rootDir, basename)[1]
        ELSE IF Exists(Join(canvasDir, <<basename>>))
        THEN Join(canvasDir, <<basename>>)
        ELSE IF InvalidPattern(basename) THEN ValueError
        ELSE IF Rglob(canvasDir, basename) # <<>> THEN Rglob(canvasDir, basename)[1]
        ELSE None

\* Path.suffix of the names of the model.
Suffix(name) ==
    CASE name \in Names -> ".gif"
      [] name = "p.PNG" -> ".PNG"
      [] name = "j.jpeg" -> ".jpeg"
      [] name = "j.jpg" -> ".jpg"
      [] name = "v.svg" -> ".svg"
      [] name = "n.bin" -> ".bin"
      [] OTHER -> ""

\* str.lower() of the suffixes of the model.
Lower(s) == IF s = ".PNG" THEN ".png" ELSE s

\* The mime_types table without '.jpeg'.
MimeType_jpg_only(suffix) ==
    CASE suffix = ".gif" -> "image/gif"
      [] suffix = ".png" -> "image/png"
      [] suffix = ".jpg" -> "image/jpeg"
      [] suffix = ".svg" -> "image/svg+xml"
      [] OTHER -> "application/octet-stream"

\* The mime_types table and its default.
MimeType(suffix) ==
    CASE suffix = ".gif" -> "image/gif"
      [] suffix = ".png" -> "image/png"
      [] suffix = ".jpg" -> "image/jpeg"
      [] suffix = ".jpeg" -> "image/jpeg"
      [] suffix = ".svg" -> "image/svg+xml"
      [] OTHER -> "application/octet-stream"

B64Alphabet ==
    <<"A", "B", "C", "D", "E", "F", "G", "H", "I", "J", "K", "L", "M", "N", "O", "P",
      "Q", "R", "S", "T", "U", "V", "W", "X", "Y", "Z", "a", "b", "c", "d", "e", "f",
      "g", "h", "i", "j", "k", "l", "m", "n", "o", "p", "q", "r", "s", "t", "u", "v",
      "w", "x", "y", "z", "0", "1", "2", "3", "4", "5", "6", "7", "8", "9", "+", "/">>

B64Char(i) == B64Alphabet[i + 1]

\* base64.b64encode(data).decode('ascii'), as a sequence of characters.
RECURSIVE b64encode(_)
b64encode(data) ==
    IF data = <<>> THEN <<>>
    ELSE IF Len(data) = 1
    THEN LET n == data[1] * 65536
         IN  <<B64Char(n \div 262144), B64Char((n \div 4096) % 64), "=", "=">>
    ELSE IF Len(data) = 2
    THEN LET n == data[1] * 65536 + data[2] * 256
         IN  <<B64Char(n \div 262144), B64Char((n \div 4096) % 64),
               B64Char((n \div 64) % 64), "=">>
    ELSE LET n == data[1] * 65536 + data[2] * 256 + data[3]
         IN  <<B64Char(n \div 262144), B64Char((n \div 4096) % 64),
               B64Char((n \div 64) % 64), B64Char(n % 64)>>
             \o b64encode(SubSeq(data, 4, Len(data)))

\* open(resolved_path, 'rb') succeeds: the path is a readable file (not a
\* directory, not a file without read permission).
CanRead(p) == p.parts \in files /\ p.parts \notin unreadable

\* CanvasConverter.file_to_data_url: [url, err, exc], url the returned string
\* (a sequence of its pieces, <<>> being "") and err the lines written to
\* stderr.  resolve_file_path is called outside the try block: what it
\* raises leaves the method.
file_to_data_url(file_path) ==
    Only({
        IF resolved_path = ValueError
        THEN [url |-> <<>>, err |-> <<>>, exc |-> ValueError.exc]
        ELSE IF resolved_path = None
        THEN [url |-> <<>>,
              err |-> <<[kind |-> "Warning: Could not find file", what |-> file_path]>>,
              exc |-> ""]
        ELSE IF ~CanRead(resolved_path)
        THEN [url |-> <<>>,
              err |-> <<[kind |-> "Error reading file", what |-> Str(resolved_path)]>>,
              exc |-> ""]
        ELSE LET data      == fileBytes[resolved_path.parts]
                 suffix    == Lower(Suffix(Name(resolved_path)))
                 mime_type == MimeType(suffix)
             IN  [url |-> <<"data:", mime_type, ";base64,", b64encode(data)>>,
                  err |-> <<>>, exc |-> ""]
        : resolved_path \in {resolve_file_path(file_path)}})

\* ------------------------------------------------------------------- JSON

\* dict.get(key, default)
Get(obj, key, default) == IF key \in DOMAIN obj THEN obj[key] ELSE default

\* The order in which the keys of an object are written.
KeyOrder ==
    <<"id", "type", "x", "y", "width", "height", "color", "text", "file", "url",
      "label", "fromNode", "fromSide", "toNode", "toSide", "toEnd">>

\* json.dumps of one object: its key/value pairs.
DumpObject(obj) ==
    LET keys == SelectSeq(KeyOrder, LAMBDA k : k \in DOMAIN obj)
    IN  [i \in 1..Len(keys) |-> <<keys[i], obj[keys[i]]>>]

\* json.dumps of a list of objects.
json_dumps(list) == [i \in 1..Len(list) |-> DumpObject(list[i])]

\* The value of an object literal in the script: the object with the written
\* pairs as its properties.
EvalObject(pairs) ==
    [k \in {pairs[i][1] : i \in 1..Len(pairs)} |->
        LET i == CHOOSE j \in 1..Len(pairs) : pairs[j][1] = k IN pairs[i][2]]

\* The value of an array literal of object literals in the script.
EvalArray(text) == [i \in 1..Len(text) |-> EvalObject(text[i])]

\* --------------------------------------------------------- geometry engine

\* padding = 50
padding == 50

SetMin(S) == CHOOSE m \in S : \A v \in S : m <= v
SetMax(S) == CHOOSE m \in S : \A v \in S : m >= v

\* CanvasConverter.calculate_bounds with the padding added to the minimum
\* instead of subtracted from it.
calculate_bounds_pad_inward(self_nodes) ==
    IF self_nodes = <<>> THEN <<0, 0, 800, 600>>
    ELSE LET I     == 1..Len(self_nodes)
             min_x == SetMin({self_nodes[i]["x"] : i \in I}) + padding
             min_y == SetMin({self_nodes[i]["y"] : i \in I}) + padding
             max_x == SetMax({self_nodes[i]["x"] + self_nodes[i]["width"] : i \in I})
                      + padding
             max_y == SetMax({self_nodes[i]["y"] + self_nodes[i]["height"] : i \in I})
                      + padding
         IN  <<min_x, min_y, max_x - min_x, max_y - min_y>>

\* CanvasConverter.calculate_bounds with the maxima taken over x and y alone.
calculate_bounds_no_extent(self_nodes) ==
    IF self_nodes = <<>> THEN <<0, 0, 800, 600>>
    ELSE LET I     == 1..Len(self_nodes)
             min_x == SetMin({self_nodes[i]["x"] : i \in I}) - padding
             min_y == SetMin({self_nodes[i]["y"] : i \in I}) - padding
             max_x == SetMax({self_nodes[i]["x"] : i \in I}) + padding
             max_y == SetMax({self_nodes[i]["y"] : i \in I}) + padding
         IN  <<min_x, min_y, max_x - min_x, max_y - min_y>>

\* CanvasConverter.calculate_bounds
calculate_bounds(self_nodes) ==
    IF self_nodes = <<>> THEN <<0, 0, 800, 600>>
    ELSE LET I     == 1..Len(self_nodes)
             min_x == SetMin({self_nodes[i]["x"] : i \in I}) - padding
             min_y == SetMin({self_nodes[i]["y"] : i \in I}) - padding
             max_x == SetMax({self_nodes[i]["x"] + self_nodes[i]["width"] : i \in I})
                      + padding
             max_y == SetMax({self_nodes[i]["y"] + self_nodes[i]["height"] : i \in I})
                      + padding
         IN  <<min_x, min_y, max_x - min_x, max_y - min_y>>

\* ------------------------------------------------------------ node renderer

PRESET_COLORS ==
    [c \in {"1", "2", "3", "4", "5", "6"} |->
        CASE c = "1" -> "#e06c75"
          [] c = "2" -> "#d19a66"
          [] c = "3" -> "#e5c07b"
          [] c = "4" -> "#98c379"
          [] c = "5" -> "#61afef"
          [] c = "6" -> "#c678dd"]

\* CanvasConverter.get_color.  None and '' are both falsy: node.get('color')
\* of a node without a color is written "".
get_color(color_value) ==
    IF color_value = "" THEN ""
    ELSE IF color_value \in DOMAIN PRESET_COLORS THEN PRESET_COLORS[color_value]
    ELSE color_value

\* text.replace('\n', '<br>')
ReplaceNewlines(text) ==
    [i \in 1..Len(text) |-> IF text[i] = "\n" THEN "<br>" ELSE text[i]]

\* The style attribute of a fragment.
Style(left, top, width, height, color) ==
    [left |-> left, top |-> top, width |-> width, height |-> height,
     border_color |-> color]

\* CanvasConverter.generate_node_html: [html, err, exc], html the fragment
\* ([tag |-> ""] being the empty string) and err the lines written to stderr
\* on the way.
generate_node_html(node, offset_x, offset_y) ==
    LET node_type == node["type"]
        x         == node["x"] - offset_x
        y         == node["y"] - offset_y
        width     == node["width"]
        height    == node["height"]
        color     == get_color(Get(node, "color", ""))
        style     == Style(x, y, width, height, color)
    IN  IF node_type = "text"
        THEN [html |-> [tag |-> "div", class |-> "node node-text", style |-> style,
                        body |-> ReplaceNewlines(Get(node, "text", <<>>))],
              err  |-> <<>>, exc |-> ""]
        ELSE IF node_type = "file"
        THEN LET file_path == Get(node, "file", <<>>)
             IN  Only({
                 IF data.exc # ""
                 THEN [html |-> [tag |-> ""], err |-> data.err, exc |-> data.exc]
                 ELSE IF data.url # <<>>
                 THEN [html |-> [tag |-> "div", class |-> "node node-file",
                                 style |-> style,
                                 body |-> [tag |-> "img", src |-> data.url,
                                           alt |-> file_path]],
                       err  |-> data.err, exc |-> ""]
                 ELSE [html |-> [tag |-> "div", class |-> "node node-text",
                                 style |-> style,
                                 body |-> <<"File not found: ", file_path>>],
                       err  |-> data.err, exc |-> ""]
                 : data \in {file_to_data_url(file_path)}})
        ELSE IF node_type = "link"
        THEN [html |-> [tag |-> "a", class |-> "node node-link", style |-> style,
                        href |-> Get(node, "url", ""), target |-> "_blank",
                        body |-> Get(node, "url", "")],
              err  |-> <<>>, exc |-> ""]
        ELSE IF node_type = "group"
        THEN [html |-> [tag |-> "div", class |-> "node node-group", style |-> style,
                        body |-> [tag |-> "div", body |-> Get(node, "label", "")]],
              err  |-> <<>>, exc |-> ""]
        ELSE [html |-> [tag |-> ""], err |-> <<>>, exc |-> ""]

\* -------------------------------------------------------- document assembler

RECURSIVE Concat(_)
Concat(seqs) == IF seqs = <<>> THEN <<>> ELSE Head(seqs) \o Concat(Tail(seqs))

\* edges_data = json.dumps(self.edges) with the default sides written into
\* the edges that leave them out.
edges_data_with_defaults(self_edges) ==
    json_dumps([i \in 1..Len(self_edges) |->
        self_edges[i] @@ [fromSide |-> "right", toSide |-> "left"]])

\* edges_data = json.dumps(self.edges)
edges_data(self_edges) == json_dumps(self_edges)

\* nodes_data with the positions left as they are in the document.
nodes_data_raw(self_nodes, min_x, min_y) ==
    json_dumps([i \in 1..Len(self_nodes) |->
        [id     |-> self_nodes[i]["id"],
         x      |-> self_nodes[i]["x"],
         y      |-> self_nodes[i]["y"],
         width  |-> self_nodes[i]["width"],
         height |-> self_nodes[i]["height"]]])

\* nodes_data = json.dumps([{'id': ..., 'x': node['x'] - min_x, ...} for node
\* in self.nodes])
nodes_data(self_nodes, min_x, min_y) ==
    json_dumps([i \in 1..Len(self_nodes) |->
        [id     |-> self_nodes[i]["id"],
         x      |-> self_nodes[i]["x"] - min_x,
         y      |-> self_nodes[i]["y"] - min_y,
         width  |-> self_nodes[i]["width"],
         height |-> self_nodes[i]["height"]]])

\* CanvasConverter.generate_html: [html, err, exc].  The document is the
\* fixed shell with four holes: the size of the canvas container, the node
\* fragments, and the two array literals of the script.  The loop over the
\* nodes stops at the first node whose rendering raises; the lines the
\* nodes before it wrote to stderr stay written.
generate_html(self_nodes, self_edges) ==
    LET b     == calculate_bounds(self_nodes)
        min_x == b[1]
        min_y == b[2]
        I     == 1..Len(self_nodes)
    IN  Only({
        LET raising == {i \in I : rendered[i].exc # ""}
        IN  IF raising # {}
            THEN LET k == SetMin(raising)
                 IN  [html |-> None,
                      err  |-> Concat([i \in 1..(k - 1) |-> rendered[i].err]),
                      exc  |-> rendered[k].exc]
            ELSE [html |-> [container  |-> [width |-> b[3], height |-> b[4]],
                            nodes_html |-> [i \in I |-> rendered[i].html],
                            nodes_data |-> nodes_data(self_nodes, min_x, min_y),
                            edges_data |-> edges_data(self_edges)],
                  err  |-> Concat([i \in I |-> rendered[i].err]),
                  exc  |-> ""]
        : rendered \in {[i \in I |-> generate_node_html(self_nodes[i], min_x, min_y)]}})

\* CanvasConverter.load_canvas: what it returns, assigns and prints, given
\* the file at canvas_path.  open() fails on an "unopenable" file;
\* json.load fails on "badjson"; on "nondict" the JSON value is not an
\* object, canvas_data is assigned and the first .get raises.
load_canvas(file) ==
    IF file.state = "ok"
    THEN [value |-> TRUE, canvas_data |-> file.doc,
          nodes |-> Get(file.doc, "nodes", <<>>),
          edges |-> Get(file.doc, "edges", <<>>), err |-> <<>>]
    ELSE [value |-> FALSE,
          canvas_data |-> IF file.state = "nondict" THEN file.doc ELSE canvas_data,
          nodes |-> nodes, edges |-> edges,
          err |-> <<[kind |-> "Error loading canvas file", what |-> file.state]>>]

Absent == [state |-> "absent"]
Partial == [state |-> "partial"]
Complete(html) == [state |-> "complete", html |-> html]

\* CanvasConverter.convert printing its success message before the write.
convert_reports_first(file, fault) ==
    LET l == load_canvas(file)
    IN  IF ~l.value
        THEN [value |-> FALSE, canvas_data |-> l.canvas_data, nodes |-> l.nodes,
              edges |-> l.edges, outFile |-> outFile, out |-> <<>>, err |-> l.err,
              exc |-> ""]
        ELSE LET failed == <<[kind |-> "Error writing output file", what |-> fault]>>
             IN  Only({
                 IF g.exc # ""
                 THEN [value |-> None, canvas_data |-> l.canvas_data,
                       nodes |-> l.nodes, edges |-> l.edges, outFile |-> outFile,
                       out |-> <<>>, err |-> g.err, exc |-> g.exc]
                 ELSE IF fault = "open"
                 THEN [value |-> FALSE, canvas_data |-> l.canvas_data,
                       nodes |-> l.nodes, edges |-> l.edges, outFile |-> outFile,
                       out |-> <<>>, err |-> g.err \o failed, exc |-> ""]
                 ELSE IF fault = "write"
                 THEN [value |-> FALSE, canvas_data |-> l.canvas_data,
                       nodes |-> l.nodes, edges |-> l.edges,
                       outFile |-> [opened |-> TRUE, content |-> Partial],
                       out |-> <<"Successfully converted to: output_path">>, err |-> g.err \o failed, exc |-> ""]
                 ELSE [value |-> TRUE, canvas_data |-> l.canvas_data,
                       nodes |-> l.nodes, edges |-> l.edges,
                       outFile |-> [opened |-> TRUE, content |-> Complete(g.html)],
                       out |-> <<"Successfully converted to: output_path">>,
                       err |-> g.err, exc |-> ""]
                 : g \in {generate_html(l.nodes, l.edges)}})

\* CanvasConverter.convert: what it returns, assigns, writes and prints,
\* given the file at canvas_path and the fault of output_path ("open": open()
\* raises and the file is left as it was; "write": f.write raises after
\* open() has truncated the file; "none").  generate_html is called outside
\* the try block: what it raises leaves the method, which then returns no
\* value (None stands for it) and has not opened the output file.
convert(file, fault) ==
    LET l == load_canvas(file)
    IN  IF ~l.value
        THEN [value |-> FALSE, canvas_data |-> l.canvas_data, nodes |-> l.nodes,
              edges |-> l.edges, outFile |-> outFile, out |-> <<>>, err |-> l.err,
              exc |-> ""]
        ELSE LET failed == <<[kind |-> "Error writing output file", what |-> fault]>>
             IN  Only({
                 IF g.exc # ""
                 THEN [value |-> None, canvas_data |-> l.canvas_data,
                       nodes |-> l.nodes, edges |-> l.edges, outFile |-> outFile,
                       out |-> <<>>, err |-> g.err, exc |-> g.exc]
                 ELSE IF fault = "open"
                 THEN [value |-> FALSE, canvas_data |-> l.canvas_data,
                       nodes |-> l.nodes, edges |-> l.edges, outFile |-> outFile,
                       out |-> <<>>, err |-> g.err \o failed, exc |-> ""]
                 ELSE IF fault = "write"
                 THEN [value |-> FALSE, canvas_data |-> l.canvas_data,
                       nodes |-> l.nodes, edges |-> l.edges,
                       outFile |-> [opened |-> TRUE, content |-> Partial],
                       out |-> <<>>, err |-> g.err \o failed, exc |-> ""]
                 ELSE [value |-> TRUE, canvas_data |-> l.canvas_data,
                       nodes |-> l.nodes, edges |-> l.edges,
                       outFile |-> [opened |-> TRUE, content |-> Complete(g.html)],
                       out |-> <<"Successfully converted to: output_path">>,
                       err |-> g.err, exc |-> ""]
                 : g \in {generate_html(l.nodes, l.edges)}})

\* ------------------------------------------------------------ viewer script
\* Coordinates of connection points are kept doubled (x2, y2), so that the
\* halves of widths and heights stay integers.

\* nodeMap after nodes.forEach(node => nodeMap[node.id] = node)
NodeMap(ns) ==
    [k \in {ns[i]["id"] : i \in 1..Len(ns)} |->
        ns[SetMax({i \in 1..Len(ns) : ns[i]["id"] = k})]]

\* getConnectionPoint
getConnectionPoint(node, side) ==
    LET x == node["x"]
        y == node["y"]
        w == node["width"]
        h == node["height"]
    IN  CASE side = "top"    -> [x2 |-> 2 * x + w,     y2 |-> 2 * y]
          [] side = "right"  -> [x2 |-> 2 * (x + w),   y2 |-> 2 * y + h]
          [] side = "bottom" -> [x2 |-> 2 * x + w,     y2 |-> 2 * (y + h)]
          [] side = "left"   -> [x2 |-> 2 * x,         y2 |-> 2 * y + h]
          [] OTHER           -> [x2 |-> 2 * x + w,     y2 |-> 2 * y + h]

\* nodeMap[edge[key]] is a node
Resolves(edge, key, nodeMap) == key \in DOMAIN edge /\ edge[key] \in DOMAIN nodeMap

\* a || b without the alternative.
OrElse_first(a, b) == a

\* a || b for strings
OrElse(a, b) == IF a = "" THEN b ELSE a

\* A variable of the script that was never assigned.
Undefined == [undefined |-> TRUE]

\* The offset without the cap at 100.
offset_no_cap(start, end) ==
    LET dx == end.x2 - start.x2
        dy == end.y2 - start.y2
    IN  [sq16 |-> dx * dx + dy * dy]

\* offset = Math.min(distance / 2, 100), for distance = Math.sqrt(dx * dx +
\* dy * dy).  The square root is kept exact: the offset is given by the integer
\* (4 * offset)^2, which for anchors in doubled coordinates is the lesser of
\* dx2^2 + dy2^2 and 400^2.
offset(start, end) ==
    LET dx       == end.x2 - start.x2
        dy       == end.y2 - start.y2
        distance == dx * dx + dy * dy
    IN  [sq16 |-> IF distance < 400 * 400 THEN distance ELSE 400 * 400]

\* The control point the switch on a side assigns: the anchor displaced by
\* kx * offset along x and ky * offset along y.  A side that is none of the
\* four cases leaves cp1x, cp1y (cp2x, cp2y) unassigned.
ControlPoint(point, side) ==
    CASE side = "top"    -> [x2 |-> point.x2, y2 |-> point.y2, kx |-> 0,  ky |-> -1]
      [] side = "right"  -> [x2 |-> point.x2, y2 |-> point.y2, kx |-> 1,  ky |-> 0]
      [] side = "bottom" -> [x2 |-> point.x2, y2 |-> point.y2, kx |-> 0,  ky |-> 1]
      [] side = "left"   -> [x2 |-> point.x2, y2 |-> point.y2, kx |-> -1, ky |-> 0]
      [] OTHER           -> Undefined

\* generateEdgePath: [d, warn], d the returned path data ([empty |-> TRUE]
\* being '') and warn the console.warn calls.  The path data of a curve
\* is "M start C cp1 cp2 end"; the sides and the offset are kept beside it.
generateEdgePath(edge, nodeMap) ==
    IF ~Resolves(edge, "fromNode", nodeMap) \/ ~Resolves(edge, "toNode", nodeMap)
    THEN [d |-> [empty |-> TRUE], warn |-> <<[kind |-> "Missing node for edge:", what |-> edge]>>]
    ELSE LET fromSide == OrElse(Get(edge, "fromSide", ""), "right")
             toSide   == OrElse(Get(edge, "toSide", ""), "left")
             start    == getConnectionPoint(nodeMap[edge["fromNode"]], fromSide)
             end      == getConnectionPoint(nodeMap[edge["toNode"]], toSide)
         IN  [d |-> [empty |-> FALSE, start |-> start, end |-> end,
                     cp1 |-> ControlPoint(start, fromSide),
                     cp2 |-> ControlPoint(end, toSide),
                     offset |-> offset(start, end),
                     fromSide |-> fromSide, toSide |-> toSide],
              warn |-> <<>>]

\* The path element the edges.forEach loop appends for one edge; marker_end
\* "" is the attribute left unset.
EdgeElement(edge, nodeMap) ==
    [tag |-> "path", d |-> generateEdgePath(edge, nodeMap).d, class |-> "edge",
     marker_end |-> IF OrElse(Get(edge, "toEnd", ""), "arrow") = "arrow"
                    THEN "url(#arrowhead)" ELSE ""]

\* ------------------------------------------------------------ zoom and pan

\* The numbers of the zoom and pan code are rationals [n, d] in lowest terms
\* with d > 0.
RECURSIVE GCD(_, _)
GCD(a, b) == IF b = 0 THEN a ELSE GCD(b, a % b)

Abs(i) == IF i < 0 THEN -i ELSE i

Rat(n, d) ==
    LET g == GCD(Abs(n), Abs(d))
    IN  IF d > 0 THEN [n |-> n \div g, d |-> d \div g]
        ELSE [n |-> (-n) \div g, d |-> (-d) \div g]

Num(i) == [n |-> i, d |-> 1]

RAdd(a, b) == Rat(a.n * b.d + b.n * a.d, a.d * b.d)
RSub(a, b) == Rat(a.n * b.d - b.n * a.d, a.d * b.d)
RMul(a, b) ==
    LET p == Rat(a.n, b.d)
        q == Rat(b.n, a.d)
    IN  Rat(p.n * q.n, p.d * q.d)
RDiv(a, b) == RMul(a, Rat(b.d, b.n))
RLess(a, b) == a.n * b.d < b.n * a.d

\* Math.max, Math.min
Math_max(a, b) == IF RLess(a, b) THEN b ELSE a
Math_min(a, b) == IF RLess(b, a) THEN b ELSE a

\* Math.round: the nearest integer, a half rounded up.
Math_round(a) == (2 * a.n + a.d) \div (2 * a.d)

\* Math.sqrt of the sums of squares of the model, which are squares.
Math_sqrt(dx, dy) ==
    CHOOSE r \in 0..(Abs(dx) + Abs(dy)) : r * r = dx * dx + dy * dy

MIN_SCALE == Rat(1, 10)
MAX_SCALE == Num(5)
ZOOM_STEP == Rat(1, 10)

\* viewport.getBoundingClientRect(): the viewport fills the window.
rect == [left |-> 0, top |-> 0]

\* The variables of the zoom and pan code as the script initializes them,
\* with the parts of the page it writes: the transform of the container (None
\* while unset), the text of the zoom level and the grabbing class of the
\* viewport.  event is the event handled last and nEvents their number.
ViewInit ==
    [scale |-> Num(1), translateX |-> Num(0), translateY |-> Num(0),
     isDragging |-> FALSE, startX |-> Num(0), startY |-> Num(0),
     lastTouchDistance |-> Num(0), touchStartX |-> Num(0), touchStartY |-> Num(0),
     isTouching |-> FALSE,
     transform |-> None, zoomLevel |-> 100, grabbing |-> FALSE,
     event |-> [type |-> "load"], nEvents |-> 0]

updateTransform(v) ==
    [v EXCEPT !.transform = [translateX |-> v.translateX, translateY |-> v.translateY,
                             scale |-> v.scale],
              !.zoomLevel = Math_round(RMul(v.scale, Num(100)))]

\* zoom without the clamp to [MIN_SCALE, MAX_SCALE].
zoom_no_clamp(v, delta, center) ==
    LET oldScale == v.scale
        scale    == RAdd(v.scale, delta)
    IN  IF center = None
        THEN updateTransform([v EXCEPT !.scale = scale])
        ELSE LET scaleRatio == RDiv(scale, oldScale)
             IN  updateTransform(
                     [v EXCEPT !.scale = scale,
                               !.translateX = RSub(center.x, RMul(RSub(center.x, @), scaleRatio)),
                               !.translateY = RSub(center.y, RMul(RSub(center.y, @), scaleRatio))])

\* zoom(delta, centerX, centerY); center is None for the default null, null.
zoom(v, delta, center) ==
    LET oldScale == v.scale
        scale    == Math_max(MIN_SCALE, Math_min(MAX_SCALE, RAdd(v.scale, delta)))
    IN  IF center = None
        THEN updateTransform([v EXCEPT !.scale = scale])
        ELSE LET scaleRatio == RDiv(scale, oldScale)
             IN  updateTransform(
                     [v EXCEPT !.scale = scale,
                               !.translateX = RSub(center.x, RMul(RSub(center.x, @), scaleRatio)),
                               !.translateY = RSub(center.y, RMul(RSub(center.y, @), scaleRatio))])

resetView(v) ==
    updateTransform([v EXCEPT !.scale = Num(1), !.translateX = Num(0),
                              !.translateY = Num(0)])

\* The listeners, each from the state v and the event e to the next state.
wheel(v, e) ==
    LET delta   == IF e.deltaY > 0 THEN RSub(Num(0), ZOOM_STEP) ELSE ZOOM_STEP
        centerX == Num(e.clientX - rect.left)
        centerY == Num(e.clientY - rect.top)
    IN  zoom(v, delta, [x |-> centerX, y |-> centerY])

mousedown(v, e) ==
    [v EXCEPT !.isDragging = TRUE,
              !.startX = RSub(Num(e.clientX), v.translateX),
              !.startY = RSub(Num(e.clientY), v.translateY),
              !.grabbing = TRUE]

mousemove(v, e) ==
    IF ~v.isDragging THEN v
    ELSE updateTransform([v EXCEPT !.translateX = RSub(Num(e.clientX), v.startX),
                                   !.translateY = RSub(Num(e.clientY), v.startY)])

mouseup(v, e) == [v EXCEPT !.isDragging = FALSE, !.grabbing = FALSE]

\* The click listeners of the three buttons.
click(v, e) ==
    CASE e.target = "zoom-in"    -> zoom(v, ZOOM_STEP, None)
      [] e.target = "zoom-out"   -> zoom(v, RSub(Num(0), ZOOM_STEP), None)
      [] e.target = "zoom-reset" -> resetView(v)

keydown(v, e) ==
    IF e.key = "+" \/ e.key = "=" THEN zoom(v, ZOOM_STEP, None)
    ELSE IF e.key = "-" \/ e.key = "_" THEN zoom(v, RSub(Num(0), ZOOM_STEP), None)
    ELSE IF e.key = "0" THEN resetView(v)
    ELSE v

getTouchDistance(touches) ==
    LET dx == touches[1].clientX - touches[2].clientX
        dy == touches[1].clientY - touches[2].clientY
    IN  Num(Math_sqrt(dx, dy))

getTouchCenter(touches) ==
    [x |-> Rat(touches[1].clientX + touches[2].clientX, 2),
     y |-> Rat(touches[1].clientY + touches[2].clientY, 2)]

touchstart(v, e) ==
    IF Len(e.touches) = 1
    THEN [v EXCEPT !.isTouching = TRUE,
                   !.touchStartX = RSub(Num(e.touches[1].clientX), v.translateX),
                   !.touchStartY = RSub(Num(e.touches[1].clientY), v.translateY),
                   !.grabbing = TRUE]
    ELSE IF Len(e.touches) = 2
    THEN [v EXCEPT !.lastTouchDistance = getTouchDistance(e.touches)]
    ELSE v

touchmove(v, e) ==
    IF Len(e.touches) = 1 /\ v.isTouching
    THEN updateTransform(
             [v EXCEPT !.translateX = RSub(Num(e.touches[1].clientX), v.touchStartX),
                       !.translateY = RSub(Num(e.touches[1].clientY), v.touchStartY)])
    ELSE IF Len(e.touches) = 2
    THEN LET newDistance    == getTouchDistance(e.touches)
             center         == getTouchCenter(e.touches)
             centerX        == RSub(center.x, Num(rect.left))
             centerY        == RSub(center.y, Num(rect.top))
             distanceChange == RSub(newDistance, v.lastTouchDistance)
             zoomDelta      == RMul(RDiv(distanceChange, Num(100)), ZOOM_STEP)
         IN  [zoom(v, zoomDelta, [x |-> centerX, y |-> centerY])
                 EXCEPT !.lastTouchDistance = newDistance]
    ELSE v

touchend(v, e) ==
    IF Len(e.touches) = 0
    THEN [v EXCEPT !.isTouching = FALSE, !.grabbing = FALSE]
    ELSE IF Len(e.touches) = 1
    THEN [v EXCEPT !.touchStartX = RSub(Num(e.touches[1].clientX), v.translateX),
                   !.touchStartY = RSub(Num(e.touches[1].clientY), v.translateY),
                   !.lastTouchDistance = Num(0)]
    ELSE v

\* The page after the script has run on the document html: the path
\* elements appended to the edges layer, the console, and the zoom and pan
\* state.
RunScript(html) ==
    LET ns      == EvalArray(html.nodes_data)
        es      == EvalArray(html.edges_data)
        nodeMap == NodeMap(ns)
    IN  [loaded  |-> TRUE,
         svg     |-> [i \in 1..Len(es) |-> EdgeElement(es[i], nodeMap)],
         console |-> Concat([i \in 1..Len(es) |-> generateEdgePath(es[i], nodeMap).warn]),
         view    |-> ViewInit]

\* ------------------------------------------------------------- input sets

RootR == [abs |-> TRUE, parts |-> <<"r">>]
CanvasC == [abs |-> TRUE, parts |-> <<"c">>]

ScanOrders == {<<"img", "old">>, <<"old", "img">>}

GifBytes == <<71, 73, 70>>
OtherBytes == {<<255>>, <<0, 16>>}

\* File references of node records and calls.
Refs ==
    {<<"/", "x", "/", "a.gif">>, <<"img", "/", "a.gif">>, <<"a.gif">>,
     <<".", "/", "nope.png">>, <<>>,
     <<"img", "/", "a[1].gif">>, <<"img", "/", "a**b.gif">>}

NodeId(i) == CASE i = 1 -> "n1" [] i = 2 -> "n2" [] i = 3 -> "n3" [] OTHER -> "n4"

TextNode  == [type |-> "text", x |-> 0, y |-> 0, width |-> 100, height |-> 50,
              text |-> <<"hi", "\n", "there">>]
FileNode  == [type |-> "file", x |-> -60, y |-> 40, width |-> 200, height |-> 120,
              file |-> <<"img", "/", "a.gif">>, color |-> "1"]
LinkNode  == [type |-> "link", x |-> 30, y |-> -20, width |-> 80, height |-> 40,
              url |-> "https://e.x", color |-> "#abc"]
GroupNode == [type |-> "group", x |-> -100, y |-> -100, width |-> 400, height |-> 300,
              label |-> "G"]
StarNode  == [type |-> "file", x |-> 10, y |-> 10, width |-> 50, height |-> 50,
              file |-> <<"img", "/", "a**b.gif">>]
NodeKinds == {TextNode, FileNode, LinkNode, GroupNode, StarNode}

WithId(i, node) == ("id" :> NodeId(i)) @@ node

\* Node lists of length n: the i-th node has id NodeId(i), the rest from Kinds.
NodeLists(Kinds, n) == {[i \in 1..n |-> WithId(i, f[i])] : f \in [1..n -> Kinds]}

EdgeKinds ==
    {[fromNode |-> "n1", toNode |-> "n2"],
     [fromNode |-> "n1", fromSide |-> "bottom", toNode |-> "n2", toSide |-> "top",
      toEnd |-> "none"],
     [fromNode |-> "n1", fromSide |-> "right", toNode |-> "zz", toSide |-> "left"]}

EdgeLists(n) == [1..n -> EdgeKinds]

\* ------------------------------------------------------------------ bounds

\* Nodes per document.
MaxNodes == 2
\* Edges per document.
MaxEdges == 1
\* Events the viewer handles after a page load.
MaxEvents == 3

\* ---------------------------------------------------------------- actions
\* One action per method call.  The result of the method is bound by
\* \E r \in {method(...)}, which evaluates it once.

NoCall == [op |-> "none"]

Called(op, arg, value, err, exc) ==
    [op |-> op, arg |-> arg, ver |-> fsVer, value |-> value, err |-> err, exc |-> exc]

InitConverter ==
    /\ canvasDir = CanvasC
    /\ fileBytes = [p \in AllFiles |-> GifBytes]
    /\ fsVer = 0
    /\ canvas_data = None
    /\ nodes = <<>>
    /\ edges = <<>>
    /\ outFile = [opened |-> FALSE, content |-> Absent]
    /\ stdout = <<>>
    /\ stderr = <<>>
    /\ ret = NoCall
    /\ prev = NoCall
    /\ nCalls = 0
    /\ viewer = [loaded |-> FALSE, svg |-> <<>>, console |-> <<>>, view |-> ViewInit]

Call(op, arg, value, err, exc) ==
    /\ nCalls < MaxCalls
    /\ nCalls' = nCalls + 1
    /\ prev' = ret
    /\ ret' = Called(op, arg, value, err, exc)
    /\ stderr' = stderr \o err

Call_resolve_file_path(ref) ==
    /\ \E r \in {resolve_file_path(ref)} :
           Call("resolve_file_path", ref, r, <<>>,
                IF r = ValueError THEN ValueError.exc ELSE "")
    /\ UNCHANGED <<rootDir, canvasDir, fsVars, docVars>>

Call_file_to_data_url(ref) ==
    /\ \E r \in {file_to_data_url(ref)} :
           Call("file_to_data_url", ref, r.url, r.err, r.exc)
    /\ UNCHANGED <<rootDir, canvasDir, fsVars, docVars>>

Call_calculate_bounds ==
    /\ Call("calculate_bounds", nodes, calculate_bounds(nodes), <<>>, "")
    /\ UNCHANGED <<rootDir, canvasDir, fsVars, docVars>>

Call_load_canvas ==
    /\ \E l \in {load_canvas(inputFile)} :
           /\ Call("load_canvas", inputFile.state, l.value, l.err, "")
           /\ canvas_data' = l.canvas_data
           /\ nodes' = l.nodes
           /\ edges' = l.edges
    /\ UNCHANGED <<rootDir, canvasDir, fsVars, inputFile, outFault, outFile, stdout,
                   viewer>>

\* generate_html with the translation applied to self.nodes in place.
Call_generate_html_in_place ==
    /\ \E g \in {generate_html(nodes, edges)}, b \in {calculate_bounds(nodes)} :
           /\ Call("generate_html", [nodes |-> nodes, edges |-> edges], g.html, g.err,
                   g.exc)
           /\ nodes' = [i \in 1..Len(nodes) |->
                           [nodes[i] EXCEPT !["x"] = @ - b[1], !["y"] = @ - b[2]]]
    /\ UNCHANGED <<rootDir, canvasDir, fsVars, inputFile, outFault, canvas_data, edges,
                   outFile, stdout, viewer>>

Call_generate_html ==
    /\ \E g \in {generate_html(nodes, edges)} :
           Call("generate_html", [nodes |-> nodes, edges |-> edges], g.html, g.err,
                g.exc)
    /\ UNCHANGED <<rootDir, canvasDir, fsVars, docVars>>

Call_convert ==
    /\ \E c \in {convert(inputFile, outFault)} :
           /\ Call("convert", inputFile.state, c.value, c.err, c.exc)
           /\ canvas_data' = c.canvas_data
           /\ nodes' = c.nodes
           /\ edges' = c.edges
           /\ outFile' = c.outFile
           /\ stdout' = stdout \o c.out
    /\ UNCHANGED <<rootDir, canvasDir, fsVars, inputFile, outFault, viewer>>

\* The browser opens (or reloads) the written document and runs its script.
LoadPage ==
    /\ outFile.content.state = "complete"
    /\ viewer' = RunScript(outFile.content.html)
    /\ UNCHANGED <<rootDir, canvasDir, fsVars, inputFile, outFault, canvas_data, nodes,
                   edges, outFile, stdout, stderr, ret, prev, nCalls>>

\* The environment changes the file system; a change may also change the
\* order in which directories list their entries.
FsChange(newFiles, newUnreadable, newBytes) ==
    /\ fsVer < MaxFsOps
    /\ fsVer' = fsVer + 1
    /\ files' = newFiles
    /\ unreadable' = newUnreadable
    /\ fileBytes' = newBytes
    /\ scanOrder' \in ScanOrders
    /\ UNCHANGED <<rootDir, canvasDir, docVars, stderr, ret, prev, nCalls>>

FsCreate(p) == p \notin files /\ FsChange(files \cup {p}, unreadable, fileBytes)
FsRemove(p) == p \in files /\ FsChange(files \ {p}, unreadable \ {p}, fileBytes)
FsChmod(p) ==
    /\ p \in files
    /\ FsChange(files, IF p \in unreadable THEN unreadable \ {p} ELSE unreadable \cup {p},
                fileBytes)
FsWrite(p, bytes) ==
    /\ p \in files
    /\ bytes # fileBytes[p]
    /\ FsChange(files, unreadable, [fileBytes EXCEPT ![p] = bytes])

\* ----------------------------------------------------------- specifications

NoInput == [state |-> "unopenable", doc |-> None]

\* The asset resolver alone, over every set of files called a.gif, alone
\* or with files whose names are wildcard patterns.
PlainFiles == {p \in AllFiles : Last(p) = "a.gif"}
PatternFiles ==
    {{}, {<<"r", "old", "a1.gif">>, <<"c", "a[1].gif">>}, {<<"c", "a**b.gif">>}}

InitResolve ==
    /\ InitConverter
    /\ rootDir \in {None, RootR}
    /\ files \in {F \cup G : F \in SUBSET PlainFiles, G \in PatternFiles}
    /\ unreadable = {}
    /\ scanOrder \in ScanOrders
    /\ inputFile = NoInput
    /\ outFault = "none"

NextResolve == \E ref \in Refs : Call_resolve_file_path(ref)

SpecResolve == InitResolve /\ [][NextResolve]_vars

\* The asset resolver under a changing file system: two same-named files
\* below the root directory and one in the canvas directory.
AssetFiles == {<<"r", "img", "a.gif">>, <<"r", "old", "a.gif">>, <<"c", "a.gif">>}
AssetRefs == {<<"a.gif">>, <<"img", "/", "a.gif">>, <<"old", "/", "a**b.gif">>}

InitAssets ==
    /\ InitConverter
    /\ rootDir = RootR
    /\ files \in SUBSET AssetFiles
    /\ unreadable = {}
    /\ scanOrder \in ScanOrders
    /\ inputFile = NoInput
    /\ outFault = "none"

NextAssets ==
    \/ \E ref \in AssetRefs : Call_resolve_file_path(ref)
    \/ \E ref \in AssetRefs : Call_file_to_data_url(ref)
    \/ \E p \in AssetFiles : FsCreate(p)
    \/ \E p \in AssetFiles : FsRemove(p)
    \/ \E p \in AssetFiles : FsChmod(p)
    \/ \E p \in AssetFiles, bytes \in OtherBytes : FsWrite(p, bytes)

SpecAssets == InitAssets /\ [][NextAssets]_vars

\* File nodes over files of every extension of the table, of another
\* extension and of none, referred to by name or by a pattern.
MimeFiles == {<<"c", n>> : n \in MimeNames \cup {"a.gif"}}
MimeRefs == {<<n>> : n \in MimeNames \cup {"a.gif"}} \cup {<<"img", "/", "v.s[v]g">>}
MimeKinds ==
    {[type |-> "file", x |-> 0, y |-> 0, width |-> 100, height |-> 50, file |-> r] :
        r \in MimeRefs}
MimeDocs ==
    {[nodes |-> ns, edges |-> <<>>] :
        ns \in NodeLists(MimeKinds, 1)
                \cup {l \in NodeLists(MimeKinds, 2) : l[1]["file"] = <<"img", "/", "v.s[v]g">>}}

InitMime ==
    /\ InitConverter
    /\ rootDir = None
    /\ files \in {MimeFiles, MimeFiles \ {<<"c", "v.svg">>}, {}}
    /\ unreadable = {}
    /\ scanOrder = <<"img", "old">>
    /\ inputFile \in {[state |-> "ok", doc |-> d] : d \in MimeDocs}
    /\ outFault = "none"

NextMime ==
    \/ \E ref \in MimeRefs : Call_file_to_data_url(ref)
    \/ Call_load_canvas
    \/ Call_generate_html

SpecMime == InitMime /\ [][NextMime]_vars

\* The geometry of text nodes.
GeomKinds ==
    {[type |-> "text", x |-> x, y |-> y, width |-> w, height |-> 50, text |-> <<"t">>] :
        x \in {-60, 0, 30}, y \in {0, 75}, w \in {100, 20}}

GeomDocs ==
    {[nodes |-> ns, edges |-> <<>>] :
        ns \in UNION {NodeLists(GeomKinds, n) : n \in 0..MaxNodes}}

InitGeom ==
    /\ InitConverter
    /\ rootDir = None
    /\ files = {}
    /\ unreadable = {}
    /\ scanOrder = <<"img", "old">>
    /\ inputFile \in {[state |-> "ok", doc |-> d] : d \in GeomDocs}
    /\ outFault = "none"

NextGeom ==
    \/ Call_load_canvas
    \/ Call_calculate_bounds
    \/ Call_generate_html

SpecGeom == InitGeom /\ [][NextGeom]_vars

\* The converter: documents of every node kind, with edges, under four file
\* systems and every fault of the input and of the output.
Docs ==
    {[nodes |-> ns, edges |-> es] :
        ns \in UNION {NodeLists(NodeKinds, n) : n \in 0..MaxNodes},
        es \in UNION {EdgeLists(m) : m \in 0..MaxEdges}}
    \cup {[nodes |-> <<WithId(1, TextNode)>>], [edges |-> <<>>]}

Inputs ==
    {[state |-> "ok", doc |-> d] : d \in Docs}
    \cup {NoInput, [state |-> "badjson", doc |-> None],
          [state |-> "nondict", doc |-> [array |-> <<>>]]}

\* File systems: no file; the asset below the root directory; the same,
\* unreadable; the asset below the canvas directory, found by the recursive
\* search.  Output faults are taken with the first of them.
EmptyEnv == [root |-> None, files |-> {}, unreadable |-> {}]
Envs ==
    {EmptyEnv,
     [root |-> RootR, files |-> {<<"r", "img", "a.gif">>}, unreadable |-> {}],
     [root |-> RootR, files |-> {<<"r", "img", "a.gif">>},
      unreadable |-> {<<"r", "img", "a.gif">>}],
     [root |-> None, files |-> {<<"c", "old", "a.gif">>}, unreadable |-> {}]}

Scenarios ==
    {[env |-> e, fault |-> "none"] : e \in Envs}
    \cup {[env |-> EmptyEnv, fault |-> f] : f \in {"open", "write"}}

Init ==
    /\ InitConverter
    /\ \E sc \in Scenarios :
           /\ rootDir = sc.env.root
           /\ files = sc.env.files
           /\ unreadable = sc.env.unreadable
           /\ outFault = sc.fault
    /\ scanOrder = <<"img", "old">>
    /\ inputFile \in Inputs

Next ==
    \/ Call_load_canvas
    \/ Call_generate_html
    \/ Call_convert
    \/ LoadPage

Spec == Init /\ [][Next]_vars

\* The connectors: documents of two text nodes, the first fixed and the
\* second placed around it, with one edge of every pair of sides.
CurveSides == {"", "top", "right", "bottom", "left"}

\* An edge from n1 with the given optional fields; "" leaves the field out.
CurveEdge(fromSide, toSide, toEnd, to) ==
    LET given == [fromSide |-> fromSide, toSide |-> toSide, toEnd |-> toEnd]
    IN  [k \in {k \in DOMAIN given : given[k] # ""} |-> given[k]]
            @@ [fromNode |-> "n1", toNode |-> to]

CurveEdges ==
    {CurveEdge(fs, ts, te, to) :
        fs \in CurveSides, ts \in CurveSides, te \in {"", "none"}, to \in {"n1", "n2"}}

CurveDocs ==
    {[nodes |-> <<WithId(1, [type |-> "text", x |-> 0, y |-> 0, width |-> 100,
                             height |-> 50, text |-> <<"a">>]),
                  WithId(2, [type |-> "text", x |-> x, y |-> y, width |-> w,
                             height |-> 50, text |-> <<"b">>])>>,
      edges |-> <<e>>] :
        x \in {-300, 0, 40, 100, 150, 400}, y \in {-120, 0, 200}, w \in {100, 21},
        e \in CurveEdges}

InitCurve ==
    /\ InitConverter
    /\ rootDir = None
    /\ files = {}
    /\ unreadable = {}
    /\ scanOrder = <<"img", "old">>
    /\ inputFile \in {[state |-> "ok", doc |-> d] : d \in CurveDocs}
    /\ outFault = "none"

NextCurve ==
    \/ Call_convert
    \/ LoadPage

SpecCurve == InitCurve /\ [][NextCurve]_vars

\* The viewer under the events of mouse, keyboard and touch screen.
Touch(x, y) == [clientX |-> x, clientY |-> y]

\* Pointer positions.
Points == {Touch(0, 0), Touch(200, 100)}

\* Touch lists: none, one finger, two fingers 100, 1000 and 5000 apart,
\* three fingers.
TouchLists ==
    {<<>>, <<Touch(200, 100)>>,
     <<Touch(100, 100), Touch(200, 100)>>,
     <<Touch(0, 0), Touch(600, 800)>>,
     <<Touch(0, 200), Touch(5000, 200)>>,
     <<Touch(0, 0), Touch(100, 0), Touch(200, 100)>>}

Keys == {"+", "=", "-", "_", "0", "a"}

\* The browser dispatches the event e to its listener.
Dispatch(e, next) ==
    /\ viewer.loaded
    /\ viewer.view.nEvents < MaxEvents
    /\ viewer' = [viewer EXCEPT !.view = [next EXCEPT !.event = e, !.nEvents = @ + 1]]
    /\ UNCHANGED <<rootDir, canvasDir, fsVars, inputFile, outFault, canvas_data, nodes,
                   edges, outFile, stdout, stderr, ret, prev, nCalls>>

Wheel ==
    \E p \in Points, deltaY \in {-120, 0, 120} :
        \E e \in {[type |-> "wheel", deltaY |-> deltaY, clientX |-> p.clientX,
                   clientY |-> p.clientY]} :
            Dispatch(e, wheel(viewer.view, e))

MouseDown ==
    \E p \in Points :
        \E e \in {[type |-> "mousedown", clientX |-> p.clientX, clientY |-> p.clientY]} :
            Dispatch(e, mousedown(viewer.view, e))

MouseMove ==
    \E p \in Points :
        \E e \in {[type |-> "mousemove", clientX |-> p.clientX, clientY |-> p.clientY]} :
            Dispatch(e, mousemove(viewer.view, e))

MouseUp == \E e \in {[type |-> "mouseup"]} : Dispatch(e, mouseup(viewer.view, e))

Click ==
    \E target \in {"zoom-in", "zoom-out", "zoom-reset"} :
        \E e \in {[type |-> "click", target |-> target]} :
            Dispatch(e, click(viewer.view, e))

KeyDown ==
    \E key \in Keys :
        \E e \in {[type |-> "keydown", key |-> key]} :
            Dispatch(e, keydown(viewer.view, e))

TouchStart ==
    \E touches \in TouchLists \ {<<>>} :
        \E e \in {[type |-> "touchstart", touches |-> touches]} :
            Dispatch(e, touchstart(viewer.view, e))

TouchMove ==
    \E touches \in TouchLists \ {<<>>} :
        \E e \in {[type |-> "touchmove", touches |-> touches]} :
            Dispatch(e, touchmove(viewer.view, e))

TouchEnd ==
    \E touches \in TouchLists :
        \E e \in {[type |-> "touchend", touches |-> touches]} :
            Dispatch(e, touchend(viewer.view, e))

ZoomDoc ==
    [nodes |-> <<WithId(1, [type |-> "text", x |-> 0, y |-> 0, width |-> 100,
                            height |-> 50, text |-> <<"a">>])>>,
     edges |-> <<>>]

InitZoom ==
    /\ InitConverter
    /\ rootDir = None
    /\ files = {}
    /\ unreadable = {}
    /\ scanOrder = <<"img", "old">>
    /\ inputFile = [state |-> "ok", doc |-> ZoomDoc]
    /\ outFault = "none"

NextZoom ==
    \/ Call_convert
    \/ LoadPage
    \/ Wheel
    \/ MouseDown
    \/ MouseMove
    \/ MouseUp
    \/ Click
    \/ KeyDown
    \/ TouchStart
    \/ TouchMove
    \/ TouchEnd

SpecZoom == InitZoom /\ [][NextZoom]_vars


\* ------------------------------------------------------------------ claims

IsCall(call, op) == call.op = op

\* The entries called name in dir or below it, in scan order: the recursive
\* search for a name.
Find(dir, name) ==
    LET hits == SelectSeq(Walk(dir.parts), LAMBDA d : Append(d, name) \in files \cup Dirs)
    IN  [i \in 1..Len(hits) |-> [abs |-> dir.abs, parts |-> Append(hits[i], name)]]

\* The candidate of resolution strategy k for a reference, None when the
\* strategy does not match (or is skipped).
Strategy(k, ref) ==
    LET p    == Path(ref)
        base == <<Name(p)>>
        hasRoot == rootDir # None
    IN  CASE k = 1 -> IF p.abs /\ Exists(p) THEN p ELSE None
          [] k = 2 -> IF hasRoot /\ Exists(Join(rootDir, ref))
                      THEN Join(rootDir, ref) ELSE None
          [] k = 3 -> IF Exists(Join(canvasDir, ref)) THEN Join(canvasDir, ref) ELSE None
          [] k = 4 -> IF hasRoot /\ Exists(Join(rootDir, base))
                      THEN Join(rootDir, base) ELSE None
          [] k = 5 -> IF hasRoot /\ Find(rootDir, Name(p)) # <<>>
                      THEN Find(rootDir, Name(p))[1] ELSE None
          [] k = 6 -> IF Exists(Join(canvasDir, base))
                      THEN Join(canvasDir, base) ELSE None
          [] k = 7 -> IF Find(canvasDir, Name(p)) # <<>>
                      THEN Find(canvasDir, Name(p))[1] ELSE None

Matching(ref) == {k \in 1..7 : Strategy(k, ref) # None}

\* The candidate of the first strategy that matches.
FirstMatch(ref) == Strategy(SetMin(Matching(ref)), ref)

\* C1: resolve_file_path returns the candidate of the first of the seven
\* strategies that matches, in the fixed order absolute, root/ref,
\* canvas/ref, root/basename, recursive under root, canvas/basename,
\* recursive under canvas; the three root strategies never match without a
\* root directory; the result is None exactly when no strategy matches.
C1_FirstMatchWins ==
    (IsCall(ret, "resolve_file_path") /\ ret.ver = fsVer) =>
        /\ (rootDir = None => Matching(ret.arg) \cap {2, 4, 5} = {})
        /\ (ret.value = None) <=> (Matching(ret.arg) = {})
        /\ Matching(ret.arg) # {} => ret.value = FirstMatch(ret.arg)

\* A call that the recursive search under the root directory ends with an
\* exception while the file of that name lies in the canvas directory.
C1_Witness ==
    /\ IsCall(ret, "resolve_file_path")
    /\ ret.arg = <<"img", "/", "a**b.gif">>
    /\ rootDir = RootR
    /\ Matching(ret.arg) = {6, 7}
    /\ ret.exc = "ValueError"

\* C2: calculate_bounds returns (0, 0, 800, 600) for no nodes; otherwise
\* minX and minY are the least x and y less 50, and width and height reach
\* from there to the greatest x + width and y + height plus 50; the single
\* node (0, 0, 100, 50) gives (-50, -50, 200, 150).
C2_Bounds ==
    IsCall(ret, "calculate_bounds") =>
        LET ns == ret.arg
            v  == ret.value
            I  == 1..Len(ns)
        IN  IF ns = <<>> THEN v = <<0, 0, 800, 600>>
            ELSE /\ \A i \in I : v[1] <= ns[i]["x"] - 50
                 /\ \E i \in I : v[1] = ns[i]["x"] - 50
                 /\ \A i \in I : v[2] <= ns[i]["y"] - 50
                 /\ \E i \in I : v[2] = ns[i]["y"] - 50
                 /\ \A i \in I : v[3] >= ns[i]["x"] + ns[i]["width"] + 50 - v[1]
                 /\ \E i \in I : v[3] = ns[i]["x"] + ns[i]["width"] + 50 - v[1]
                 /\ \A i \in I : v[4] >= ns[i]["y"] + ns[i]["height"] + 50 - v[2]
                 /\ \E i \in I : v[4] = ns[i]["y"] + ns[i]["height"] + 50 - v[2]
                 /\ (/\ Len(ns) = 1
                     /\ ns[1]["x"] = 0 /\ ns[1]["y"] = 0
                     /\ ns[1]["width"] = 100 /\ ns[1]["height"] = 50)
                    => v = <<-50, -50, 200, 150>>

\* Bounds of two nodes, the least x and the greatest x + width on different
\* nodes.
C2_Witness ==
    /\ IsCall(ret, "calculate_bounds")
    /\ Len(ret.arg) = 2
    /\ ret.arg[1]["x"] = 30 /\ ret.arg[1]["width"] = 100
    /\ ret.arg[2]["x"] = -60 /\ ret.arg[2]["width"] = 20
    /\ ret.arg[1]["y"] = 75 /\ ret.arg[2]["y"] = 0
    /\ ret.value = <<-110, -50, 290, 225>>

\* The box [left, left + width] x [top, top + height] lies in the canvas
\* of size (w, h).
InCanvas(left, top, width, height, w, h) ==
    /\ left >= 0 /\ top >= 0
    /\ left + width <= w /\ top + height <= h

\* C3: for a non-empty node list of positive widths and heights, every
\* node's emitted position is >= (0, 0) and its extent is within the
\* bounding box's width and height, in the markup offsets and in the payload.
C3_NormalizedInBox ==
    (IsCall(ret, "generate_html") /\ ret.exc = "") =>
        LET ns == ret.arg.nodes
            h  == ret.value
            pl == EvalArray(h.nodes_data)
            I  == 1..Len(ns)
        IN  (ns # <<>> /\ \A i \in I : ns[i]["width"] > 0 /\ ns[i]["height"] > 0) =>
                \A i \in I :
                    /\ InCanvas(h.nodes_html[i].style.left, h.nodes_html[i].style.top,
                                h.nodes_html[i].style.width, h.nodes_html[i].style.height,
                                h.container.width, h.container.height)
                    /\ InCanvas(pl[i]["x"], pl[i]["y"], pl[i]["width"], pl[i]["height"],
                                h.container.width, h.container.height)

\* A rendering of two nodes, the second at the least x and the first at the
\* least y.
C3_Witness ==
    /\ IsCall(ret, "generate_html") /\ ret.exc = ""
    /\ Len(ret.arg.nodes) = 2
    /\ ret.arg.nodes[1]["x"] = 30 /\ ret.arg.nodes[2]["x"] = -60
    /\ ret.arg.nodes[1]["y"] = 0 /\ ret.arg.nodes[2]["y"] = 75
    /\ ret.value.nodes_html[2].style.left = 50
    /\ ret.value.nodes_html[1].style.top = 50

Loaded == inputFile.state = "ok" /\ canvas_data = inputFile.doc

DocNodes == Get(inputFile.doc, "nodes", <<>>)
DocEdges == Get(inputFile.doc, "edges", <<>>)

\* The asset of a file node is resolved by no strategy, or is resolved and
\* cannot be read.
AssetUnresolved(node) == Matching(Get(node, "file", <<>>)) = {}
AssetUnreadable(node) ==
    /\ ~AssetUnresolved(node)
    /\ ~CanRead(FirstMatch(Get(node, "file", <<>>)))
AssetFails(node) ==
    node["type"] = "file" /\ (AssetUnresolved(node) \/ AssetUnreadable(node))

\* The lines on stderr that report the failing asset of a node.
Reports(node) ==
    IF AssetUnresolved(node)
    THEN {[kind |-> "Warning: Could not find file", what |-> Get(node, "file", <<>>)]}
    ELSE {[kind |-> "Error reading file",
           what |-> Str(FirstMatch(Get(node, "file", <<>>)))]}

\* The node list with node i made a text node of the same id, place and size.
AsText(ns, i) ==
    [ns EXCEPT ![i] = [id |-> ns[i]["id"], type |-> "text", x |-> ns[i]["x"],
                       y |-> ns[i]["y"], width |-> ns[i]["width"],
                       height |-> ns[i]["height"], text |-> <<>>]]

\* C4: a file node whose asset is unresolved or unreadable renders as a
\* text-style fragment "File not found: <reference>", the failure is reported
\* on stderr, every other node is rendered as it is when that node is no
\* file node, and convert returns True with the output written.
C4_FailedAssetDegradesNode ==
    (IsCall(ret, "convert") /\ inputFile.state = "ok" /\ outFault = "none") =>
        /\ ret.exc = ""
        /\ ret.value = TRUE
        /\ outFile.content.state = "complete"
        /\ Len(outFile.content.html.nodes_html) = Len(nodes)
        /\ \A i \in 1..Len(nodes) :
               AssetFails(nodes[i]) =>
                   /\ outFile.content.html.nodes_html[i].class = "node node-text"
                   /\ outFile.content.html.nodes_html[i].body
                        = <<"File not found: ", nodes[i]["file"]>>
                   /\ \E k \in 1..Len(ret.err) : ret.err[k] \in Reports(nodes[i])
                   /\ \A j \in 1..Len(nodes) \ {i} :
                          outFile.content.html.nodes_html[j]
                            = generate_html(AsText(nodes, i), edges).html.nodes_html[j]

\* A conversion of a link node and a file node that no strategy resolves,
\* ended by the exception of the recursive search with no output written.
C4_Witness ==
    /\ IsCall(ret, "convert") /\ inputFile.state = "ok" /\ outFault = "none"
    /\ Len(nodes) = 2
    /\ nodes[1]["type"] = "link"
    /\ nodes[2]["type"] = "file" /\ AssetUnresolved(nodes[2])
    /\ ret.exc = "ValueError"
    /\ outFile = [opened |-> FALSE, content |-> Absent]

\* An edge of the page's payload one of whose ends is no node of it.
Dangling(edge, ns) ==
    \/ Get(edge, "fromNode", "") \notin {ns[i]["id"] : i \in 1..Len(ns)}
    \/ Get(edge, "toNode", "") \notin {ns[i]["id"] : i \in 1..Len(ns)}

\* C5: an edge whose fromNode or toNode is no node of the document produces
\* no path element and no arrow marker in the edges layer, the other edges
\* are rendered, and a warning is logged for it.
C5_DanglingEdgeNoMarkup ==
    (viewer.loaded /\ Loaded) =>
        LET kept == SelectSeq(DocEdges, LAMBDA e : ~Dangling(e, DocNodes))
        IN  /\ Len(viewer.svg) = Len(kept)
            /\ \A i \in 1..Len(viewer.svg) :
                   ~viewer.svg[i].d.empty
            /\ Len(viewer.console) = Len(DocEdges) - Len(kept)

\* A loaded page of a document with no node n2 and an edge to it: the edges
\* layer holds a path element with empty path data and the arrow marker,
\* and the console holds the warning.
C5_Witness ==
    /\ viewer.loaded /\ Loaded
    /\ Len(DocEdges) = 1 /\ Dangling(DocEdges[1], DocNodes)
    /\ Len(viewer.svg) = 1
    /\ viewer.svg[1].tag = "path"
    /\ viewer.svg[1].d.empty
    /\ viewer.svg[1].marker_end = "url(#arrowhead)"
    /\ Len(viewer.console) = 1

\* C6: if the input cannot be opened or parsed, convert returns False,
\* reports the error and the output file is never opened or written; if the
\* output cannot be written (the document has been assembled and open() or
\* write() fails), convert returns False and prints no success message; True
\* and the success message come only with the complete document written.
C6_FatalErrors ==
    /\ inputFile.state # "ok" => outFile = [opened |-> FALSE, content |-> Absent]
    /\ stdout # <<>> => outFile.content.state = "complete"
    /\ IsCall(ret, "convert") =>
           /\ inputFile.state # "ok" =>
                  /\ ret.exc = ""
                  /\ ret.value = FALSE
                  /\ ret.err = <<[kind |-> "Error loading canvas file",
                                  what |-> inputFile.state]>>
                  /\ stdout = <<>>
           /\ (/\ inputFile.state = "ok"
               /\ outFault # "none"
               /\ generate_html(nodes, edges).exc = "") =>
                  /\ ret.exc = ""
                  /\ ret.value = FALSE
                  /\ stdout = <<>>
                  /\ ret.err # <<>>
                  /\ ret.err[Len(ret.err)].kind = "Error writing output file"
           /\ (ret.exc = "" /\ ret.value = TRUE) =>
                  /\ inputFile.state = "ok" /\ outFault = "none"
                  /\ outFile = [opened |-> TRUE,
                                content |-> Complete(generate_html(nodes, edges).html)]
                  /\ stdout # <<>>
                  /\ stdout[Len(stdout)] = "Successfully converted to: output_path"
           /\ ret.exc # "" => stdout = <<>>

\* A conversion whose write fails after the output file has been opened.
C6_Witness ==
    /\ IsCall(ret, "convert") /\ ret.exc = ""
    /\ inputFile.state = "ok" /\ outFault = "write"
    /\ nodes # <<>>
    /\ outFile = [opened |-> TRUE, content |-> Partial]
    /\ ret.value = FALSE

\* minX (key "x") or minY (key "y") of the bounding box of a node list.
BoxMin(ns, key) ==
    CHOOSE m \in {ns[i][key] - 50 : i \in 1..Len(ns)} :
        \A j \in 1..Len(ns) : m <= ns[j][key] - 50

\* The fragment renders the node: its class is the node's kind (a failed
\* file node's is the text class) and it carries the node's payload.
Renders(frag, node) ==
    /\ frag.tag # ""
    /\ CASE node["type"] = "text" ->
                /\ frag.class = "node node-text"
                /\ frag.body = ReplaceNewlines(Get(node, "text", <<>>))
         [] node["type"] = "link" ->
                frag.class = "node node-link" /\ frag.href = Get(node, "url", "")
         [] node["type"] = "group" ->
                frag.class = "node node-group" /\ frag.body.body = Get(node, "label", "")
         [] node["type"] = "file" ->
                IF AssetFails(node)
                THEN frag.class = "node node-text" /\ frag.body[2] = Get(node, "file", <<>>)
                ELSE frag.class = "node node-file" /\ frag.body.alt = Get(node, "file", <<>>)

\* C7: the document generate_html returns holds one fragment and one
\* payload entry {id, x, y, width, height} per node, in input order; the
\* entry has the node's id, width and height and the position (x - minX,
\* y - minY), which is also the fragment's offset.
C7_EveryNodeRendered ==
    (IsCall(ret, "generate_html") /\ ret.exc = "") =>
        LET ns == ret.arg.nodes
            h  == ret.value
            pl == EvalArray(h.nodes_data)
        IN  /\ Len(h.nodes_html) = Len(ns)
            /\ Len(pl) = Len(ns)
            /\ \A i \in 1..Len(ns) :
                   /\ Renders(h.nodes_html[i], ns[i])
                   /\ h.nodes_html[i].style.left = ns[i]["x"] - BoxMin(ns, "x")
                   /\ h.nodes_html[i].style.top = ns[i]["y"] - BoxMin(ns, "y")
                   /\ h.nodes_html[i].style.width = ns[i]["width"]
                   /\ h.nodes_html[i].style.height = ns[i]["height"]
                   /\ pl[i] = [id |-> ns[i]["id"],
                               x |-> ns[i]["x"] - BoxMin(ns, "x"),
                               y |-> ns[i]["y"] - BoxMin(ns, "y"),
                               width |-> ns[i]["width"], height |-> ns[i]["height"]]
                   /\ pl[i]["x"] = h.nodes_html[i].style.left
                   /\ pl[i]["y"] = h.nodes_html[i].style.top

\* A rendering of a group node followed by a file node whose asset is
\* embedded.
C7_Witness ==
    /\ IsCall(ret, "generate_html") /\ ret.exc = ""
    /\ Len(ret.arg.nodes) = 2
    /\ ret.arg.nodes[1]["type"] = "group" /\ ret.arg.nodes[2]["type"] = "file"
    /\ ret.value.nodes_html[1].class = "node node-group"
    /\ ret.value.nodes_html[2].class = "node node-file"
    /\ EvalArray(ret.value.nodes_data)[2]["x"] = 90

C10_DocumentNotMutated ==
    Loaded => nodes = DocNodes /\ edges = DocEdges

\* Two renderings of a loaded document whose nodes are moved by the
\* normalization.
C10_Witness ==
    /\ Loaded
    /\ IsCall(prev, "generate_html") /\ IsCall(ret, "generate_html")
    /\ ret.exc = ""
    /\ nodes # <<>>
    /\ ret.value.nodes_html[1].style.left # nodes[1]["x"]
    /\ nodes = DocNodes

\* The node of the loaded document with the given id, in normalized
\* coordinates.
Normalized(id) ==
    LET n == DocNodes[CHOOSE j \in 1..Len(DocNodes) : DocNodes[j]["id"] = id]
    IN  [x |-> n["x"] - BoxMin(DocNodes, "x"), y |-> n["y"] - BoxMin(DocNodes, "y"),
         w |-> n["width"], h |-> n["height"]]

\* The anchor of a node for a side, in doubled coordinates.
Anchor(n, side) ==
    CASE side = "top"    -> [x2 |-> 2 * n.x + n.w,   y2 |-> 2 * n.y]
      [] side = "right"  -> [x2 |-> 2 * n.x + 2 * n.w, y2 |-> 2 * n.y + n.h]
      [] side = "bottom" -> [x2 |-> 2 * n.x + n.w,   y2 |-> 2 * n.y + 2 * n.h]
      [] side = "left"   -> [x2 |-> 2 * n.x,         y2 |-> 2 * n.y + n.h]
      [] OTHER           -> [x2 |-> 2 * n.x + n.w,   y2 |-> 2 * n.y + n.h]

\* k * sqrt(q) < m, for k in {-1, 0, 1}, a natural number q and an integer m.
SurdLess(k, q, m) ==
    CASE k = 0  -> 0 < m
      [] k = 1  -> m > 0 /\ q < m * m
      [] k = -1 -> m > 0 \/ (m = 0 /\ q > 0) \/ (m < 0 /\ q > m * m)

\* The x coordinate of a control point lies strictly between those of two
\* points.  In doubled coordinates the control point is at x2 + kx * sqrt(q) / 2,
\* q being (4 * offset)^2.
XBetween(cp, q, a, b) ==
    /\ SurdLess(-cp.kx, q, 2 * (cp.x2 - a.x2))
    /\ SurdLess(cp.kx, q, 2 * (b.x2 - cp.x2))

\* An edge between nodes of the document with the sides right and left given.
RightToLeft(edge) ==
    /\ ~Dangling(edge, DocNodes)
    /\ Get(edge, "fromSide", "") = "right"
    /\ Get(edge, "toSide", "") = "left"

\* The squared distance of two anchors, in doubled coordinates.
DistSq(a, b) == (b.x2 - a.x2) * (b.x2 - a.x2) + (b.y2 - a.y2) * (b.y2 - a.y2)

\* The curve d has offset min(distance / 2, 100) and the control points
\* (start.x + offset, start.y) and (end.x - offset, end.y).
RightLeftCurve(d, start, end) ==
    /\ d.start = start /\ d.end = end
    /\ DistSq(start, end) <= 400 * 400 => d.offset.sq16 = DistSq(start, end)
    /\ DistSq(start, end) >= 400 * 400 => d.offset.sq16 = 400 * 400
    /\ d.cp1 = [x2 |-> start.x2, y2 |-> start.y2, kx |-> 1, ky |-> 0]
    /\ d.cp2 = [x2 |-> end.x2, y2 |-> end.y2, kx |-> -1, ky |-> 0]

\* C11 as stated: for every edge between nodes of the document with sides
\* right and left, offset = min(distance / 2, 100), cp1 = (start.x + offset,
\* start.y), cp2 = (end.x - offset, end.y), and both control points lie
\* strictly between the anchors along x, wherever the nodes are.
C11_ControlPointsBetween ==
    (viewer.loaded /\ Loaded) =>
        \A i \in 1..Len(DocEdges) :
            RightToLeft(DocEdges[i]) =>
                LET d     == viewer.svg[i].d
                    start == Anchor(Normalized(DocEdges[i]["fromNode"]), "right")
                    end   == Anchor(Normalized(DocEdges[i]["toNode"]), "left")
                IN  /\ RightLeftCurve(d, start, end)
                    /\ XBetween(d.cp1, d.offset.sq16, start, end)
                    /\ XBetween(d.cp2, d.offset.sq16, start, end)

\* C11, amended: for every edge between nodes of the document with sides
\* right and left, offset = min(distance / 2, 100), cp1 = (start.x + offset,
\* start.y) and cp2 = (end.x - offset, end.y); each control point lies
\* strictly between the anchors along x exactly when end.x - start.x >
\* offset > 0, that is when the end anchor is right of the start anchor by
\* more than 100 or by more than |dy| / sqrt(3).
C11_ControlPoints ==
    (viewer.loaded /\ Loaded) =>
        \A i \in 1..Len(DocEdges) :
            RightToLeft(DocEdges[i]) =>
                LET d     == viewer.svg[i].d
                    start == Anchor(Normalized(DocEdges[i]["fromNode"]), "right")
                    end   == Anchor(Normalized(DocEdges[i]["toNode"]), "left")
                    dx    == end.x2 - start.x2
                    dy    == end.y2 - start.y2
                    ahead == dx > 0 /\ (dx > 200 \/ dy * dy < 3 * dx * dx)
                IN  /\ RightLeftCurve(d, start, end)
                    /\ XBetween(d.cp1, d.offset.sq16, start, end) <=> ahead
                    /\ XBetween(d.cp2, d.offset.sq16, start, end) <=> ahead

\* A page with an edge from the right of n1 to the left of n2, n2 lying 300
\* to the right of n1: the offset is capped at 100.
C11_Witness ==
    /\ viewer.loaded /\ Loaded
    /\ RightToLeft(DocEdges[1])
    /\ DocEdges[1]["toNode"] = "n2"
    /\ viewer.svg[1].d.end.x2 - viewer.svg[1].d.start.x2 = 600
    /\ viewer.svg[1].d.offset.sq16 = 400 * 400
    /\ XBetween(viewer.svg[1].d.cp1, viewer.svg[1].d.offset.sq16,
                viewer.svg[1].d.start, viewer.svg[1].d.end)

\* The four sides of the data model.
Sides == {"top", "right", "bottom", "left"}

\* The center of a node, in doubled coordinates.
Center(n) == [x2 |-> 2 * n.x + n.w, y2 |-> 2 * n.y + n.h]

\* C12: for every edge between nodes of the document the curve starts at the
\* anchor of the source node for fromSide and ends at the anchor of the target
\* node for toSide, in normalized coordinates; a side the edge does not give
\* is right for the source and left for the target, an end marker it does not
\* give is the arrow; start, cp1, cp2 and end are all defined; and the anchor
\* function itself gives the center of a node for an unspecified side.
C12_AnchorsAndDefaults ==
    (viewer.loaded /\ Loaded) =>
        /\ \A i \in 1..Len(DocEdges) :
                ~Dangling(DocEdges[i], DocNodes) =>
                    LET edge     == DocEdges[i]
                        el       == viewer.svg[i]
                        fromSide == IF "fromSide" \in DOMAIN edge THEN edge["fromSide"] ELSE "right"
                        toSide   == IF "toSide" \in DOMAIN edge THEN edge["toSide"] ELSE "left"
                        toEnd    == IF "toEnd" \in DOMAIN edge THEN edge["toEnd"] ELSE "arrow"
                    IN  /\ ~el.d.empty
                        /\ fromSide \in Sides /\ toSide \in Sides
                        /\ el.d.start = Anchor(Normalized(edge["fromNode"]), fromSide)
                        /\ el.d.end = Anchor(Normalized(edge["toNode"]), toSide)
                        /\ \A p \in {el.d.start, el.d.cp1, el.d.cp2, el.d.end} :
                                {"x2", "y2"} \subseteq DOMAIN p
                        /\ (el.marker_end = "url(#arrowhead)") <=> (toEnd = "arrow")
        /\ \A j \in 1..Len(DocNodes) :
                LET n == Normalized(DocNodes[j]["id"])
                IN  getConnectionPoint([x |-> n.x, y |-> n.y, width |-> n.w, height |-> n.h], "")
                        = Center(n)

\* A page with an edge from n1 to n2 that gives no side and no end marker,
\* n2 lying left of n1 so that the normalization shifts both: the curve runs
\* from the right of n1 to the left of n2 and carries the arrow.
C12_Witness ==
    /\ viewer.loaded /\ Loaded
    /\ DOMAIN DocEdges[1] = {"fromNode", "toNode"}
    /\ DocEdges[1]["toNode"] = "n2"
    /\ DocNodes[2]["x"] = -300 /\ DocNodes[2]["y"] = -120
    /\ viewer.svg[1].d.start = [x2 |-> 900, y2 |-> 390]
    /\ viewer.svg[1].d.end = [x2 |-> 100, y2 |-> 150]
    /\ viewer.svg[1].marker_end = "url(#arrowhead)"

\* The name of the file a reference of MimeRefs resolves to, files being
\* in the canvas directory only: the file of that name, or for the pattern
\* the file the pattern matches.
ResolvedName(ref) == IF Last(ref) = "v.s[v]g" THEN "v.svg" ELSE Last(ref)

\* The extension of a file name, in lower case; a leading dot starts none.
Extension(name) ==
    CASE name = "a.gif"  -> "gif"
      [] name = "p.PNG"  -> "png"
      [] name = "j.jpeg" -> "jpeg"
      [] name = "j.jpg"  -> "jpg"
      [] name = "v.svg"  -> "svg"
      [] name = "n.bin"  -> "bin"
      [] name = "README" -> ""
      [] name = ".gif"   -> ""

\* The MIME type the table gives an extension.
TableMime(ext) ==
    IF ext = "gif" THEN "image/gif"
    ELSE IF ext = "png" THEN "image/png"
    ELSE IF ext \in {"jpg", "jpeg"} THEN "image/jpeg"
    ELSE IF ext = "svg" THEN "image/svg+xml"
    ELSE "application/octet-stream"

\* The reference resolves to a file.
AssetResolved(ref) == <<"c", ResolvedName(ref)>> \in files

\* C13: the data URL of a resolved asset carries the MIME type the table
\* gives the extension of the resolved path, not of the reference:
\* image/gif, image/png, image/jpeg, image/svg+xml, and
\* application/octet-stream for any other extension or none; whatever the
\* type, the node is rendered as an image fragment whose source is that URL.
C13_MimeByResolvedExtension ==
    /\ (IsCall(ret, "file_to_data_url") /\ AssetResolved(ret.arg)) =>
            /\ ret.exc = ""
            /\ Len(ret.value) = 4
            /\ ret.value[1] = "data:"
            /\ ret.value[2] = TableMime(Extension(ResolvedName(ret.arg)))
            /\ ret.value[3] = ";base64,"
    /\ (IsCall(ret, "generate_html") /\ ret.exc = "") =>
            \A i \in 1..Len(ret.arg.nodes) :
                LET node == ret.arg.nodes[i]
                    frag == ret.value.nodes_html[i]
                IN  (node["type"] = "file" /\ AssetResolved(node["file"])) =>
                        /\ frag.class = "node node-file"
                        /\ frag.body.tag = "img"
                        /\ frag.body.src[2] = TableMime(Extension(ResolvedName(node["file"])))

\* A document with a file node that refers to v.svg by a pattern of another
\* extension and a file node for n.bin: both are rendered as images, the
\* first of type image/svg+xml, the second of the generic type.
C13_Witness ==
    /\ IsCall(ret, "generate_html") /\ ret.exc = ""
    /\ Len(ret.arg.nodes) = 2
    /\ ret.arg.nodes[1]["file"] = <<"img", "/", "v.s[v]g">>
    /\ ret.arg.nodes[2]["file"] = <<"n.bin">>
    /\ \A i \in 1..2 : ret.value.nodes_html[i].class = "node node-file"
    /\ ret.value.nodes_html[1].body.src[2] = "image/svg+xml"
    /\ ret.value.nodes_html[2].body.src[2] = "application/octet-stream"

\* The event is a zoom by one step: a turn of the wheel, a click on the
\* zoom-in or zoom-out button, or one of the keys + = - _.
StepIn(e) ==
    CASE e.type = "wheel"   -> e.deltaY <= 0
      [] e.type = "click"   -> e.target = "zoom-in"
      [] e.type = "keydown" -> e.key \in {"+", "="}
      [] OTHER              -> FALSE

StepOut(e) ==
    CASE e.type = "wheel"   -> e.deltaY > 0
      [] e.type = "click"   -> e.target = "zoom-out"
      [] e.type = "keydown" -> e.key \in {"-", "_"}
      [] OTHER              -> FALSE

\* The event is a reset: a click on the reset button or the key 0.
IsReset(e) ==
    CASE e.type = "click"   -> e.target = "zoom-reset"
      [] e.type = "keydown" -> e.key = "0"
      [] OTHER              -> FALSE

\* 0.1 <= s <= 5.0
InRange(s) == 10 * s.n >= s.d /\ s.n <= 5 * s.d

\* After every event the scale is within [0.1, 5.0], and after a reset the
\* scale is 1 and the translation (0, 0), in the variables and on the page.
ScaleInRange ==
    /\ InRange(viewer.view.scale)
    /\ IsReset(viewer.view.event) =>
           /\ viewer.view.scale = [n |-> 1, d |-> 1]
           /\ viewer.view.translateX = [n |-> 0, d |-> 1]
           /\ viewer.view.translateY = [n |-> 0, d |-> 1]
           /\ viewer.view.transform = [translateX |-> [n |-> 0, d |-> 1],
                                       translateY |-> [n |-> 0, d |-> 1],
                                       scale |-> [n |-> 1, d |-> 1]]
           /\ viewer.view.zoomLevel = 100

\* A zoom by one step adds 0.1 to the scale, or takes 0.1 from it, unless that
\* leaves [0.1, 5.0]: then the scale is the end of the range.
OneStep ==
    LET e      == viewer'.view.event
        s      == viewer.view.scale
        t      == viewer'.view.scale
        tenth  == [n |-> 1, d |-> 10]
        up     == RAdd(s, tenth)
        down   == RSub(s, tenth)
    IN  (viewer'.view.nEvents = viewer.view.nEvents + 1) =>
            /\ StepIn(e) => t = IF InRange(up) THEN up ELSE [n |-> 5, d |-> 1]
            /\ StepOut(e) => t = IF InRange(down) THEN down ELSE tenth

\* C14: after any sequence of zoom (wheel, pinch, buttons, keys), pan and
\* reset events the scale is within [0.1, 5.0]; a zoom by wheel, button or key
\* changes the scale by exactly 0.1 unless it is clamped to the range; a reset
\* by button or by the key 0 restores scale 1 and translation (0, 0).
C14_ZoomClampedAndReset == []ScaleInRange /\ [][OneStep]_vars

\* A pinch that opens two fingers to 5000 apart has driven the scale to the
\* maximum 5, moving the translation, and a turn of the wheel then took one
\* step down to 4.9.
C14_Witness ==
    /\ viewer.loaded
    /\ viewer.view.nEvents = 2
    /\ viewer.view.event.type = "wheel"
    /\ viewer.view.scale = [n |-> 49, d |-> 10]
    /\ viewer.view.lastTouchDistance = [n |-> 5000, d |-> 1]
    /\ viewer.view.translateX # [n |-> 0, d |-> 1]

====
